---- MODULE Spec2Model ----
(***************************************************************************)
(* A model of the flight-alert bot: the Telegram command handlers of       *)
(* telegram_bot.py (/search, /setthreshold, /searchmonth) and the flight   *)
(* source client of flight_api_client.py (search_flights_api and           *)
(* find_cheapest_flights_in_month).                                        *)
(*                                                                         *)
(* Conventions.                                                            *)
(*   - A Python str is a sequence of characters, each character a          *)
(*     one-element TLA+ string ("J", "2", "-").  The character written     *)
(*     "eszett" stands for U+00DF, whose upper case is the two             *)
(*     characters "SS".                                                    *)
(*   - A Python float / int / None / str price or threshold is a record    *)
(*     [k, v]: k = "fin" with v the amount in cents, or k = "inf",         *)
(*     "ninf", "nan" (IEEE specials), "none" (None), "str" (a str          *)
(*     object), with v = 0.                                                 *)
(*   - A message text is a sequence of tokens; every token has a length    *)
(*     in characters, so that len(text) is the sum of its tokens' lengths  *)
(*     and string concatenation is \o.                                     *)
(***************************************************************************)
EXTENDS Integers, Sequences, FiniteSets, TLC

(***************************************************************************)
(* Bounds of the model.                                                    *)
(***************************************************************************)
\* longest flight list one flight-source response holds
MaxFlights == 2

(***************************************************************************)
(* Program constants.                                                      *)
(***************************************************************************)
\* PRICE_THRESHOLD = 300.00, in cents
PRICE_THRESHOLD == 30000
\* the Telegram message length limit both chunking loops compare against
TelegramLimit == 4096
\* len("\n\n"), the "+ 2" of the chunking loops
SepLen == 2

(***************************************************************************)
(* Python str operations used by the handlers.                             *)
(***************************************************************************)
Digits == {"0", "1", "2", "3", "4", "5", "6", "7", "8", "9"}

LowerLetters ==
    <<"a", "b", "c", "d", "e", "f", "g", "h", "i", "j", "k", "l", "m",
      "n", "o", "p", "q", "r", "s", "t", "u", "v", "w", "x", "y", "z">>

UpperLetters ==
    <<"A", "B", "C", "D", "E", "F", "G", "H", "I", "J", "K", "L", "M",
      "N", "O", "P", "Q", "R", "S", "T", "U", "V", "W", "X", "Y", "Z">>

Range(s) == {s[i] : i \in DOMAIN s}

IndexOf(s, c) == CHOOSE i \in DOMAIN s : s[i] = c

\* str.upper() of one character: a sequence, since one character may
\* become two
UpperChar(c) ==
    IF c \in Range(LowerLetters) THEN <<UpperLetters[IndexOf(LowerLetters, c)]>>
    ELSE IF c = "eszett" THEN <<"S", "S">>
    ELSE <<c>>

\* str.lower() of one character
LowerChar(c) ==
    IF c \in Range(UpperLetters) THEN LowerLetters[IndexOf(UpperLetters, c)]
    ELSE c

RECURSIVE upper(_)
upper(s) == IF s = <<>> THEN <<>> ELSE UpperChar(Head(s)) \o upper(Tail(s))

lower(s) == [i \in DOMAIN s |-> LowerChar(s[i])]

IsAlphaChar(c) ==
    c \in Range(LowerLetters) \cup Range(UpperLetters) \cup {"eszett"}

\* str.isalpha(): at least one character and all of them alphabetic
isalpha(s) == s # <<>> /\ \A i \in DOMAIN s : IsAlphaChar(s[i])

IsDigits(s) == s # <<>> /\ \A i \in DOMAIN s : s[i] \in Digits

DigitVal(c) == CHOOSE n \in 0..9 : <<"0", "1", "2", "3", "4", "5", "6", "7", "8", "9">>[n + 1] = c

RECURSIVE DecimalVal(_)
DecimalVal(s) ==
    IF s = <<>> THEN 0
    ELSE 10 * DecimalVal(SubSeq(s, 1, Len(s) - 1)) + DigitVal(s[Len(s)])

\* position of the first c in s, or 0
RECURSIVE Find(_, _, _)
Find(s, c, i) ==
    IF i > Len(s) THEN 0 ELSE IF s[i] = c THEN i ELSE Find(s, c, i + 1)

\* str.split(c)
RECURSIVE split(_, _)
split(s, c) ==
    LET i == Find(s, c, 1) IN
    IF i = 0 THEN <<s>>
    ELSE <<SubSeq(s, 1, i - 1)>> \o split(SubSeq(s, i + 1, Len(s)), c)

(***************************************************************************)
(* Python numbers: float(), int(), comparison and "{:.2f}" formatting.     *)
(***************************************************************************)
Fin(c) == [k |-> "fin", v |-> c]
PosInf == [k |-> "inf", v |-> 0]
NegInf == [k |-> "ninf", v |-> 0]
NaN == [k |-> "nan", v |-> 0]
\* the Python value None
None == [k |-> "none", v |-> 0]
\* a Python str object where a number was expected
StrObj == [k |-> "str", v |-> 0]
\* float() and int() raising ValueError
ValueError == [k |-> "ValueError", v |-> 0]

IsNumber(x) == x.k \in {"fin", "inf", "ninf", "nan"}

\* a, b numbers: Python's a <= b (IEEE: every comparison with nan is False)
Leq(a, b) ==
    IF a.k = "nan" \/ b.k = "nan" THEN FALSE
    ELSE IF a.k = "ninf" \/ b.k = "inf" THEN TRUE
    ELSE IF a.k = "inf" \/ b.k = "ninf" THEN FALSE
    ELSE a.v <= b.v

Negate(x) ==
    IF x.k = "fin" THEN Fin(0 - x.v)
    ELSE IF x.k = "inf" THEN NegInf
    ELSE IF x.k = "ninf" THEN PosInf
    ELSE x

\* the unsigned part of a float literal: "inf", "infinity", "nan" in any
\* case, or digits with an optional fraction.  The value is kept in cents;
\* the argument texts of the model carry at most two fraction digits.
\* (Exponents, underscores and surrounding blanks, which float() also
\* accepts, use characters outside the model's alphabet.)
FloatMagnitude(s) ==
    LET low == lower(s)
        dot == Find(s, ".", 1)
        ip == IF dot = 0 THEN s ELSE SubSeq(s, 1, dot - 1)
        fp == IF dot = 0 THEN <<>> ELSE SubSeq(s, dot + 1, Len(s))
        fp2 == SubSeq(fp \o <<"0", "0">>, 1, 2)
    IN  IF low \in {<<"i", "n", "f">>, <<"i", "n", "f", "i", "n", "i", "t", "y">>} THEN PosInf
        ELSE IF low = <<"n", "a", "n">> THEN NaN
        ELSE IF /\ ip \o fp # <<>>
                /\ \A i \in DOMAIN ip : ip[i] \in Digits
                /\ \A i \in DOMAIN fp : fp[i] \in Digits
             THEN Fin(100 * DecimalVal(ip) + DecimalVal(fp2))
        ELSE ValueError

\* float(s) for a str s: a number, or ValueError
float(s) ==
    IF s # <<>> /\ Head(s) = "-" THEN
        LET m == FloatMagnitude(Tail(s)) IN IF IsNumber(m) THEN Negate(m) ELSE m
    ELSE IF s # <<>> /\ Head(s) = "+" THEN FloatMagnitude(Tail(s))
    ELSE FloatMagnitude(s)

\* int(s) for a str s: [k |-> "fin", v |-> n] (v the integer itself), or
\* ValueError
int(s) ==
    LET body == IF s # <<>> /\ Head(s) \in {"+", "-"} THEN Tail(s) ELSE s IN
    IF IsDigits(body)
    THEN Fin(IF s[1] = "-" THEN 0 - DecimalVal(body) ELSE DecimalVal(body))
    ELSE ValueError

RECURSIVE NumDigits(_)
NumDigits(n) == IF n < 10 THEN 1 ELSE 1 + NumDigits(n \div 10)

\* len(f"{x:.2f}") for a number x
Fmt2fLen(x) ==
    IF x.k = "fin" THEN
        (IF x.v < 0 THEN 1 ELSE 0)
        + NumDigits((IF x.v < 0 THEN 0 - x.v ELSE x.v) \div 100) + 3
    ELSE IF x.k = "ninf" THEN 4
    ELSE 3

\* len(str(n)) for an int n >= 0
StrIntLen(n) == NumDigits(n)

(***************************************************************************)
(* The flight source: what SerpApi answers, and search_flights_api.        *)
(***************************************************************************)
\* a Python str of n characters, where only its length matters
Str(n) == [k |-> "str", v |-> n]

\* lengths of the airline names of the model: a short name, a name with
\* which two /search records fill one message exactly, a name one longer
\* (two records no longer fit), and a name that makes one /search record
\* longer than a message
AirlineLens == {8, 1969, 1970, 4018}

\* one leg of an offer, as SerpApi gives it
Leg(a) == [airline |-> a, flight_number |-> Str(6), time |-> Str(16)]

\* one entry of results["best_flights"] or results["other_flights"]:
\* flights is the list of its legs (<<>>: the key is absent or empty)
FlightInfo(legs, logo, p) == [flights |-> legs, airline_logo |-> logo, price |-> p]

\* the entries a /search response is built from
SearchInfos ==
    {FlightInfo(<<Leg(Str(8))>>, Str(40), p) :
        p \in {None, StrObj, Fin(19999), Fin(30000)}}
    \cup {FlightInfo(<<Leg(Str(n))>>, Str(40), Fin(19999)) : n \in AirlineLens}
    \cup {FlightInfo(<<>>, Str(40), p) : p \in {None, Fin(0), Fin(19999)}}

\* the entries a day's response of a month scan is built from
MonthInfos ==
    {FlightInfo(<<Leg(Str(8))>>, Str(40), p) :
        p \in {None, StrObj, Fin(19999), Fin(30000)}}
    \cup {FlightInfo(<<Leg(Str(9))>>, Str(40), Fin(19999))}

SeqsUpTo(S, n) == UNION {[1..m -> S] : m \in 0..n}

\* the ways the flight source can answer one query: the API key is not
\* configured, the client raises, the answer carries "error", or the answer
\* is a results dict
Failures ==
    {[kind |-> k, best_flights |-> <<>>, other_flights |-> <<>>] :
        k \in {"nokey", "exception", "error"}}

Responses(infos) ==
    {[kind |-> "results", best_flights |-> SubSeq(l, 1, i),
      other_flights |-> SubSeq(l, i + 1, Len(l))] :
        <<l, i>> \in {<<l, i>> \in SeqsUpTo(infos, MaxFlights) \X (0..MaxFlights) :
                        i <= Len(l)}}

\* the answers of the model to a /search query
SearchOutcomes == Failures \cup Responses(SearchInfos)

\* the answers of the model to one day's query of a month scan
DayOutcomes ==
    Failures
    \cup {[kind |-> "results", best_flights |-> l, other_flights |-> <<>>] :
            l \in SeqsUpTo(MonthInfos, MaxFlights)}

\* Python truthiness of a price
Truthy(p) ==
    IF p.k = "none" THEN FALSE
    ELSE IF p.k = "fin" THEN p.v # 0
    ELSE TRUE

\* the flight dict built from one entry, as a sequence of zero or one dicts
ProcessInfo(flight_info) ==
    IF flight_info.flights # <<>> THEN
        <<[airline |-> flight_info.flights[1].airline,
           flight_number |-> flight_info.flights[1].flight_number,
           price |-> flight_info.price,
           departure_time |-> flight_info.flights[1].time]>>
    ELSE IF Truthy(flight_info.price) THEN
        <<[airline |-> flight_info.airline_logo,
           flight_number |-> None,
           price |-> flight_info.price,
           departure_time |-> None]>>
    ELSE <<>>

RECURSIVE ProcessCategory(_)
ProcessCategory(l) ==
    IF l = <<>> THEN <<>> ELSE ProcessInfo(Head(l)) \o ProcessCategory(Tail(l))

\* search_flights_api: the list it returns when the source answers with
\* outcome r.  Every failure is caught and answered with the empty list.
search_flights_api(r) ==
    IF r.kind = "nokey" THEN <<>>
    ELSE IF r.kind = "exception" THEN <<>>
    ELSE IF r.kind = "error" THEN <<>>
    ELSE ProcessCategory(r.best_flights) \o ProcessCategory(r.other_flights)

\* ApiRaises without the catch-all of lines 90-95: a client error leaves
\* search_flights_api
ApiRaisesOnException(k) == k = "exception"

\* search_flights_api leaves by an exception when the source answers with
\* an outcome of kind k: it never does, since its body catches every
\* Exception
ApiRaises(k) == FALSE

\* search_flights_api returns None: it never does, every return statement
\* returns a list
ApiReturnsNone(k) == FALSE

(***************************************************************************)
(* Message texts.  A text is a sequence of tokens [t, len, flight]: t names *)
(* the piece of text, len is its length in characters, and flight is the   *)
(* flight dict a record was rendered from (None for any other piece).  The *)
(* note of /searchmonth also has count, the number it reports.             *)
(***************************************************************************)
Token(t, n) == [t |-> t, len |-> n, flight |-> None]

RECURSIVE TextLen(_)
TextLen(text) == IF text = <<>> THEN 0 ELSE Head(text).len + TextLen(Tail(text))

\* "\n\n"
Sep == Token("sep", SepLen)

\* len(f"{x}") of a text field of a flight dict: a str, or None ("None")
FieldLen(x) == IF x.k = "none" THEN 4 ELSE x.v

\* flight_detail of /search
flight_detail(flight) ==
    [t |-> "detail",
     len |-> 49 + FieldLen(flight.airline) + FieldLen(flight.flight_number)
                + Fmt2fLen(flight.price) + FieldLen(flight.departure_time),
     flight |-> flight]

\* flight_detail of /searchmonth, which adds the date line
month_flight_detail(flight) ==
    [t |-> "detail",
     len |-> 62 + Len(flight.date) + FieldLen(flight.airline)
                + FieldLen(flight.flight_number) + Fmt2fLen(flight.price)
                + FieldLen(flight.departure_time),
     flight |-> flight]

\* SearchChunks starting the next message empty: the part that did not fit
\* is lost
RECURSIVE SearchChunksDropping(_, _, _)
SearchChunksDropping(message_parts, combined_message, i) ==
    IF i > Len(message_parts) THEN
        IF combined_message # <<>> THEN <<combined_message>> ELSE <<>>
    ELSE IF TextLen(combined_message) + message_parts[i].len + SepLen > TelegramLimit THEN
        <<combined_message>> \o SearchChunksDropping(message_parts, <<>>, i + 1)
    ELSE SearchChunksDropping(message_parts,
                              combined_message \o <<message_parts[i], Sep>>, i + 1)

\* the chunking loop of /search from part i on, combined_message being
\* what is gathered so far: the texts passed to reply_text, in order
RECURSIVE SearchChunks(_, _, _)
SearchChunks(message_parts, combined_message, i) ==
    IF i > Len(message_parts) THEN
        IF combined_message # <<>> THEN <<combined_message>> ELSE <<>>
    ELSE IF TextLen(combined_message) + message_parts[i].len + SepLen > TelegramLimit THEN
        <<combined_message>>
            \o SearchChunks(message_parts, <<message_parts[i], Sep>>, i + 1)
    ELSE SearchChunks(message_parts, combined_message \o <<message_parts[i], Sep>>, i + 1)

\* f"...and {n} more similar flights." (line 298); count is the number n
MoreNote(n) == [t |-> "more", len |-> 29 + StrIntLen(n), flight |-> None, count |-> n]

\* MonthChunks with its break one part earlier
RECURSIVE MonthChunksBreakEarly(_, _, _)
MonthChunksBreakEarly(message_parts, current_message, i) ==
    IF i > Len(message_parts) THEN
        IF current_message # <<>> THEN <<current_message>> ELSE <<>>
    ELSE
        LET over == TextLen(current_message) + message_parts[i].len + SepLen > TelegramLimit
            sent_now == IF over THEN <<current_message>> ELSE <<>>
            cur == IF over THEN <<message_parts[i], Sep>>
                   ELSE current_message \o <<message_parts[i], Sep>>
        IN  IF (i - 1) > 27 /\ Len(message_parts) > 30 THEN
                sent_now \o <<cur \o <<MoreNote(Len(message_parts) - i)>>>>
            ELSE sent_now \o MonthChunksBreakEarly(message_parts, cur, i + 1)

\* the chunking loop of /searchmonth from part i on (i counts from 1, the
\* code's enumerate from 0), with its break after the 30th part
RECURSIVE MonthChunks(_, _, _)
MonthChunks(message_parts, current_message, i) ==
    IF i > Len(message_parts) THEN
        IF current_message # <<>> THEN <<current_message>> ELSE <<>>
    ELSE
        LET over == TextLen(current_message) + message_parts[i].len + SepLen > TelegramLimit
            sent_now == IF over THEN <<current_message>> ELSE <<>>
            cur == IF over THEN <<message_parts[i], Sep>>
                   ELSE current_message \o <<message_parts[i], Sep>>
        IN  IF (i - 1) > 28 /\ Len(message_parts) > 30 THEN
                sent_now \o <<cur \o <<MoreNote(Len(message_parts) - i)>>>>
            ELSE sent_now \o MonthChunks(message_parts, cur, i + 1)

(***************************************************************************)
(* find_cheapest_flights_in_month.                                         *)
(***************************************************************************)
\* isleap by the Julian rule: every fourth year is a leap year
isleapJulian(year) == year % 4 = 0

\* calendar.isleap
isleap(year) == year % 4 = 0 /\ (year % 100 # 0 \/ year % 400 = 0)

\* calendar.mdays
mdays == <<31, 28, 31, 30, 31, 30, 31, 31, 30, 31, 30, 31>>

\* calendar.monthrange(year, month) raises IllegalMonthError
IllegalMonth(month) == ~(1 <= month /\ month <= 12)

\* calendar.monthrange(year, month)[1], for a legal month
monthrange(year, month) ==
    mdays[month] + (IF month = 2 /\ isleap(year) THEN 1 ELSE 0)

DigitChars == <<"0", "1", "2", "3", "4", "5", "6", "7", "8", "9">>

\* str(n) for an int n >= 0
RECURSIVE IntChars(_)
IntChars(n) ==
    IF n < 10 THEN <<DigitChars[n + 1]>>
    ELSE IntChars(n \div 10) \o <<DigitChars[(n % 10) + 1]>>

\* f"{n:0{w}d}" for an int n >= 0
RECURSIVE ZeroPad(_, _)
ZeroPad(s, w) == IF Len(s) >= w THEN s ELSE ZeroPad(<<"0">> \o s, w)

\* current_date_str
DateStr(year, month, day) ==
    ZeroPad(IntChars(year), 4) \o <<"-">> \o ZeroPad(IntChars(month), 2)
        \o <<"-">> \o ZeroPad(IntChars(day), 2)

\* what the try block of lines 110-114 leaves: [ok, year, month]
ParseYearMonth(year_month_str) ==
    LET Unpack(parts) ==
            IF Len(parts) = 2 /\ int(parts[1]) # ValueError /\ int(parts[2]) # ValueError
            THEN [ok |-> TRUE, year |-> int(parts[1]).v, month |-> int(parts[2]).v]
            ELSE [ok |-> FALSE, year |-> 0, month |-> 0]
    IN  CHOOSE r \in {Unpack(parts) : parts \in {split(year_month_str, "-")}} : TRUE

\* SourceDicts with the date stored in the dict of the source itself
\* instead of a copy
SourceDictsTaggedInPlace(daily_flights, current_date_str) ==
    [j \in DOMAIN daily_flights |->
        IF daily_flights[j].price # None
        THEN [airline |-> daily_flights[j].airline,
              flight_number |-> daily_flights[j].flight_number,
              price |-> daily_flights[j].price,
              departure_time |-> daily_flights[j].departure_time,
              date |-> current_date_str]
        ELSE daily_flights[j]]

\* the dicts of daily_flights after the loop of lines 130-135: the date is
\* stored in augmented_flight, which flight.copy() made a dict of its own,
\* so every dict of daily_flights is as search_flights_api returned it
SourceDicts(daily_flights, current_date_str) == daily_flights

\* augmented_flight: a copy of flight with its date
Augment(flight, current_date_str) ==
    [airline |-> flight.airline, flight_number |-> flight.flight_number,
     price |-> flight.price, departure_time |-> flight.departure_time,
     date |-> current_date_str]

\* DayFlights adding the flights of a day in reverse order
RECURSIVE DayFlightsReversed(_, _)
DayFlightsReversed(daily_flights, current_date_str) ==
    IF daily_flights = <<>> THEN <<>>
    ELSE DayFlightsReversed(Tail(daily_flights), current_date_str)
         \o (IF Head(daily_flights).price # None
             THEN <<Augment(Head(daily_flights), current_date_str)>> ELSE <<>>)

\* the flights one day adds to all_flights_for_month (lines 129-135)
RECURSIVE DayFlights(_, _)
DayFlights(daily_flights, current_date_str) ==
    IF daily_flights = <<>> THEN <<>>
    ELSE (IF Head(daily_flights).price # None
          THEN <<Augment(Head(daily_flights), current_date_str)>> ELSE <<>>)
         \o DayFlights(Tail(daily_flights), current_date_str)

\* isinstance(f.get('price'), (int, float))
IsIntOrFloat(p) == IsNumber(p)

\* min(f['price'] for f in valid_flights_with_price), for a non-empty list
\* of finite prices
MinPrice(valid) ==
    CHOOSE m \in {valid[i].price : i \in DOMAIN valid} :
        \A i \in DOMAIN valid : Leq(m, valid[i].price)

\* Cheapest keeping only the first flight at the minimum price: ties are
\* dropped
CheapestFirstOnly(all_flights_for_month) ==
    LET HasPrice(f) == IsIntOrFloat(f.price)
        valid_flights_with_price == SelectSeq(all_flights_for_month, HasPrice)
    IN  IF valid_flights_with_price = <<>> THEN <<>>
        ELSE LET min_price == MinPrice(valid_flights_with_price)
                 IsMin(f) == f.price = min_price
             IN  <<SelectSeq(valid_flights_with_price, IsMin)[1]>>

\* Cheapest returning every flight collected when none has a number as
\* price
CheapestElseAll(all_flights_for_month) ==
    LET HasPrice(f) == IsIntOrFloat(f.price)
        valid_flights_with_price == SelectSeq(all_flights_for_month, HasPrice)
    IN  IF valid_flights_with_price = <<>> THEN all_flights_for_month
        ELSE LET min_price == MinPrice(valid_flights_with_price)
                 IsMin(f) == f.price = min_price
             IN  SelectSeq(valid_flights_with_price, IsMin)

\* lines 140-155: the list returned for all_flights_for_month
Cheapest(all_flights_for_month) ==
    LET HasPrice(f) == IsIntOrFloat(f.price)
        valid_flights_with_price == SelectSeq(all_flights_for_month, HasPrice)
    IN  IF all_flights_for_month = <<>> THEN <<>>
        ELSE IF valid_flights_with_price = <<>> THEN <<>>
        ELSE LET min_price == MinPrice(valid_flights_with_price)
                 IsMin(f) == f.price = min_price
             IN  SelectSeq(valid_flights_with_price, IsMin)

\* all_flights_for_month after the days day..last, the source answering
\* day d with world[d]
RECURSIVE ScanFrom(_, _, _, _, _, _)
ScanFrom(all, y, m, d, last, world) ==
    IF d > last THEN all
    ELSE ScanFrom(all \o DayFlights(search_flights_api(world[d]), DateStr(y, m, d)),
                  y, m, d + 1, last, world)

\* the first day in d..last whose query leaves search_flights_api by an
\* exception, or 0
RECURSIVE FirstRaise(_, _, _)
FirstRaise(d, last, world) ==
    IF d > last THEN 0
    ELSE IF ApiRaises(world[d].kind) THEN d
    ELSE FirstRaise(d + 1, last, world)

\* find_cheapest_flights_in_month(origin, destination, year_month_str), the
\* source answering day d with world[d]: [raised, value, queried], where
\* raised says that an exception left the function (IllegalMonthError of
\* calendar.monthrange, or one that left search_flights_api), value is the
\* list returned and queried the number of days the source was asked for;
\* ym is what the try block of lines 110-114 left, parsed once
find_cheapest_flights_in_month(year_month_str, world) ==
    LET Scan(ym) ==
            IF ~ym.ok THEN [raised |-> FALSE, value |-> <<>>, queried |-> 0]
            ELSE IF IllegalMonth(ym.month)
                 THEN [raised |-> TRUE, value |-> <<>>, queried |-> 0]
            ELSE LET last == monthrange(ym.year, ym.month)
                     stop == FirstRaise(1, last, world)
                 IN  IF stop # 0
                     THEN [raised |-> TRUE, value |-> <<>>, queried |-> stop]
                     ELSE [raised |-> FALSE,
                           value |-> Cheapest(ScanFrom(<<>>, ym.year, ym.month, 1,
                                                       last, world)),
                           queried |-> last]
    IN  CHOOSE r \in {Scan(ym) : ym \in {ParseYearMonth(year_month_str)}} : TRUE

(***************************************************************************)
(* Inputs of the model: users, and the argument lists of their commands.   *)
(***************************************************************************)
Users == {"u1", "u2"}

JFK == <<"J", "F", "K">>
LAX == <<"L", "A", "X">>
Date1 == <<"2", "0", "2", "4", "-", "1", "2", "-", "2", "4">>

SearchArgs ==
    {<<>>,
     <<JFK, LAX>>,
     <<JFK, LAX, Date1, Date1>>,
     \* accepted: lower case, a date that is no calendar date, a date that
     \* is ten letters, a two-character code whose upper case has three
     <<JFK, <<"l", "A", "x">>, <<"9", "9", "9", "9", "-", "9", "9", "-", "9", "9">>>>,
     <<<<"j", "f", "k">>, LAX, <<"a", "b", "c", "d", "e", "f", "g", "h", "i", "j">>>>,
     <<<<"a", "eszett">>, LAX, Date1>>,
     \* rejected
     <<<<"J", "1", "K">>, LAX, Date1>>,
     <<<<"J", "F">>, LAX, Date1>>,
     <<JFK, <<"L", "A", "X", "X">>, Date1>>,
     <<JFK, <<"L", "-", "X">>, Date1>>,
     <<JFK, LAX, <<"2", "0", "2", "4", "-", "1", "-", "1">>>>,
     <<JFK, LAX, <<"2", "0", "2", "4", "-", "1", "2", "-", "2", "4", "0">>>>}

ThresholdTexts ==
    {<<"2", "5", "0">>,
     <<"1", "9", "9", ".", "9", "9">>,
     <<"0">>,
     <<"-", "5">>,
     <<"a", "b", "c">>,
     <<"n", "a", "n">>,
     <<"i", "n", "f">>}

SetThresholdArgs ==
    {<<>>, <<<<"2", "5", "0">>, <<"1", "0">>>>} \cup {<<t>> : t \in ThresholdTexts}

YearMonthTexts ==
    {<<"2", "0", "2", "4", "-", "0", "2">>,
     <<"2", "0", "2", "3", "-", "0", "2">>,
     <<"2", "0", "2", "4", "-", "1", "3">>,
     <<"2", "0", "2", "4", "-", "0", "0">>,
     <<"2", "0", "2", "4", "-", "2">>,
     <<"2", "0", "2", "4", "0", "2">>,
     <<"2", "0", "2", "4", "-", "1", "x">>,
     <<"2", "0", "2", "4", "-", "0", "2", "-", "0", "1">>}

SearchMonthArgs ==
    {<<>>,
     <<JFK, LAX>>,
     <<<<"J", "1", "K">>, LAX, <<"2", "0", "2", "4", "-", "0", "2">>>>,
     <<JFK, <<"L", "A">>, <<"2", "0", "2", "4", "-", "0", "2">>>>}
    \cup {<<<<"j", "f", "k">>, LAX, ym>> : ym \in YearMonthTexts}

Updates ==
    {[command |-> "search", user |-> u, args |-> a] : u \in Users, a \in SearchArgs}
    \cup {[command |-> "setthreshold", user |-> u, args |-> a] :
            u \in Users, a \in SetThresholdArgs}
    \cup {[command |-> "searchmonth", user |-> u, args |-> a] :
            u \in Users, a \in SearchMonthArgs}

\* the days of a month on which the source may fail or hold offers: the
\* first and the last; on every other day it answers with no flights
EventDays(num_days) == {1, num_days}

NoFlights == [kind |-> "results", best_flights |-> <<>>, other_flights |-> <<>>]

\* a response holding n copies of one offer (a month of many ties)
BulkSizes == {30, 31}

BulkInfo == FlightInfo(<<Leg(Str(30))>>, Str(40), Fin(19999))

BulkResponses ==
    {[kind |-> "results", best_flights |-> [i \in 1..n |-> BulkInfo],
      other_flights |-> <<>>] : n \in BulkSizes}

\* the answers of the model to one day's query when /searchmonth scans a
\* month: a failure, no flights, one offer (with or without a price), or
\* many tied offers
HandlerDayOutcomes ==
    {[kind |-> "exception", best_flights |-> <<>>, other_flights |-> <<>>], NoFlights}
    \cup {[kind |-> "results", best_flights |-> <<i>>, other_flights |-> <<>>] :
            i \in {FlightInfo(<<Leg(Str(8))>>, Str(40), p) :
                      p \in {None, Fin(19999), Fin(30000)}}}
    \cup BulkResponses

\* the answers of the source to the num_days queries of a month scan
Worlds(num_days, outcomes) ==
    {[d \in 1..num_days |-> IF d = 1 THEN o[1] ELSE IF d = num_days THEN o[2] ELSE NoFlights] :
        o \in outcomes \X outcomes}

(***************************************************************************)
(* The state.                                                              *)
(***************************************************************************)
VARIABLES
    user_data,        \* context.user_data of every user: 'price_threshold'
    pc,               \* where the handler of the current update stands
    update,           \* the update being handled: command, user, args
    user_threshold,   \* the handler's local user_threshold
    flights,          \* the handler's local flights
    source_kind,      \* how the source answered the /search query
    month_result,     \* what find_cheapest_flights_in_month did
    cheap_flights,    \* the handler's local cheap_flights
    sent,             \* the texts passed to reply_text for this update
    calls,            \* the queries put to the flight source, in order
    \* a call of find_cheapest_flights_in_month, statement by statement
    mpc,              \* where the call stands
    ym_arg,           \* its argument year_month_str
    year,             \* its local year
    month,            \* its local month
    num_days,         \* its local num_days
    day,              \* its loop variable day
    all_flights_for_month,  \* its local all_flights_for_month
    answers,          \* what the source answered, day by day
    daily_dicts,      \* the dicts search_flights_api returned, day by day, as
                      \* they stand
    ret               \* how the call ended: [raised, value]

botVars == <<user_data, pc, update, user_threshold, flights, source_kind,
             month_result, cheap_flights, sent>>

scanVars == <<mpc, ym_arg, year, month, num_days, day, all_flights_for_month,
              answers, daily_dicts, ret>>

vars == <<botVars, calls, scanVars>>

\* 'price_threshold' is not in the user's user_data
Unset == [k |-> "unset", v |-> 0]

NoUpdate == [command |-> "none", user |-> "u1", args |-> <<>>]

NoResult == [raised |-> FALSE, value |-> <<>>, queried |-> 0]

NoReturn == [raised |-> FALSE, value |-> <<>>]

\* no call of find_cheapest_flights_in_month is under way
ScanIdle ==
    /\ mpc = "idle"
    /\ ym_arg = <<>>
    /\ year = 0
    /\ month = 0
    /\ num_days = 0
    /\ day = 0
    /\ all_flights_for_month = <<>>
    /\ answers = <<>>
    /\ daily_dicts = <<>>
    /\ ret = NoReturn

Init ==
    /\ user_data = [u \in Users |-> Unset]
    /\ pc = "idle"
    /\ update = NoUpdate
    /\ user_threshold = Unset
    /\ flights = <<>>
    /\ source_kind = "none"
    /\ month_result = NoResult
    /\ cheap_flights = <<>>
    /\ sent = <<>>
    /\ calls = <<>>
    /\ ScanIdle

\* context.args, and the handlers' locals computed from it
args == update.args
origin == upper(args[1])
destination == upper(args[2])
date_str == args[3]
year_month_str == args[3]

\* the dispatcher hands the next update to its handler; updates are
\* handled one at a time
Receive(u) ==
    /\ pc = "idle"
    /\ update' = u
    /\ pc' = "start"
    /\ UNCHANGED <<user_data, user_threshold, flights, source_kind,
                   month_result, cheap_flights, sent, calls>>
    /\ UNCHANGED scanVars

\* the handler has returned: its locals are gone, user_data stays
Return ==
    /\ pc = "done"
    /\ pc' = "idle"
    /\ update' = NoUpdate
    /\ user_threshold' = Unset
    /\ flights' = <<>>
    /\ source_kind' = "none"
    /\ month_result' = NoResult
    /\ cheap_flights' = <<>>
    /\ sent' = <<>>
    /\ calls' = <<>>
    /\ UNCHANGED user_data
    /\ UNCHANGED scanVars

Reply(text) == sent' = Append(sent, text)

\* ThresholdOf ignoring what the user has stored
ThresholdOfDefault(data) == Fin(PRICE_THRESHOLD)

(***************************************************************************)
(* /search: search_command_handler.                                        *)
(***************************************************************************)
\* context.user_data.get('price_threshold', PRICE_THRESHOLD)
ThresholdOf(data) == IF data = Unset THEN Fin(PRICE_THRESHOLD) ELSE data

\* not (not args or len(args) != 3)
ArgCountOk(a, n) == a # <<>> /\ Len(a) = n

\* len(code) == 3 and code.isalpha(), for an upper-cased code
CodeOk(code) == Len(code) = 3 /\ isalpha(code)

\* SearchFormatOk without its check of the destination
SearchFormatOkNoDestination(a) ==
    /\ CodeOk(upper(a[1]))
    /\ Len(a[3]) = 10

\* the format check of /search (lines 109-111), for three arguments
SearchFormatOk(a) ==
    /\ CodeOk(upper(a[1]))
    /\ CodeOk(upper(a[2]))
    /\ Len(a[3]) = 10

\* Qualifies with < for <=: a price equal to the threshold is left out
QualifiesStrict(flight, threshold) ==
    LET price == flight.price IN
    IF price = None THEN FALSE
    ELSE IF price.k = "str" THEN FALSE
    ELSE Leq(price, threshold) /\ price # threshold

\* the test of line 145 on one flight: price is not None and
\* price <= user_threshold, where comparing a str with a float raises
\* TypeError, which the loop catches and skips the flight
Qualifies(flight, threshold) ==
    LET price == flight.price IN
    IF price = None THEN FALSE
    ELSE IF price.k = "str" THEN FALSE
    ELSE Leq(price, threshold)

\* CheapFlights sorting the qualifying flights by ascending price
CheapFlightsByPrice(fl, threshold) ==
    LET Test(f) == Qualifies(f, threshold)
        cheap == SelectSeq(fl, Test)
        Before(i, j) == cheap[i].price.v < cheap[j].price.v
                        \/ (cheap[i].price.v = cheap[j].price.v /\ i < j)
        Rank(i) == 1 + Cardinality({j \in DOMAIN cheap : Before(j, i)})
    IN  [n \in DOMAIN cheap |-> cheap[CHOOSE i \in DOMAIN cheap : Rank(i) = n]]

\* cheap_flights (lines 139-149)
CheapFlights(fl, threshold) ==
    LET Test(f) == Qualifies(f, threshold) IN SelectSeq(fl, Test)

\* the handler gets as far as the filter (no early return of lines 123-136)
ReachesFilter(k, fl) == ~ApiRaises(k) /\ ~ApiReturnsNone(k) /\ fl # <<>>

\* message_parts of /search (lines 156-164)
SearchParts(cheap) == [i \in DOMAIN cheap |-> flight_detail(cheap[i])]

\* SearchReplies returning without a reply when the source has no flights
SearchRepliesSilentOnEmpty(k, fl, threshold, o, d, date) ==
    LET where == Len(o) + Len(d) + Len(date)
        cheap == CheapFlights(fl, threshold)
    IN  IF ApiRaises(k) THEN <<<<Token("internal_error", 55)>>>>
        ELSE IF ApiReturnsNone(k) THEN <<<<Token("error_fetching", 40 + where)>>>>
        ELSE IF fl = <<>> THEN <<>>
        ELSE IF cheap # <<>> THEN
            <<<<Token("alert_intro",
                      54 + StrIntLen(Len(cheap)) + Fmt2fLen(threshold) + where)>>>>
                \o SearchChunks(SearchParts(cheap), <<>>, 1)
        ELSE <<<<Token("none_below_threshold",
                       66 + StrIntLen(Len(fl)) + Fmt2fLen(threshold) + where)>>>>

\* the texts /search replies with once the source has answered with
\* outcome kind k and flights fl (lines 123-188)
SearchReplies(k, fl, threshold, o, d, date) ==
    LET where == Len(o) + Len(d) + Len(date)
        cheap == CheapFlights(fl, threshold)
    IN  IF ApiRaises(k) THEN <<<<Token("internal_error", 55)>>>>
        ELSE IF ApiReturnsNone(k) THEN <<<<Token("error_fetching", 40 + where)>>>>
        ELSE IF fl = <<>> THEN <<<<Token("no_flights_found", 30 + where)>>>>
        ELSE IF cheap # <<>> THEN
            <<<<Token("alert_intro",
                      54 + StrIntLen(Len(cheap)) + Fmt2fLen(threshold) + where)>>>>
                \o SearchChunks(SearchParts(cheap), <<>>, 1)
        ELSE <<<<Token("none_below_threshold",
                       66 + StrIntLen(Len(fl)) + Fmt2fLen(threshold) + where)>>>>

\* lines 92-117: read the threshold, check the arguments
SearchStart ==
    /\ pc = "start"
    /\ update.command = "search"
    /\ user_threshold' = ThresholdOf(user_data[update.user])
    /\ IF ~ArgCountOk(args, 3) THEN
            /\ Reply(<<Token("usage_search", 58)>>)
            /\ pc' = "done"
       ELSE IF ~SearchFormatOk(args) THEN
            /\ Reply(<<Token("invalid_format", 117)>>)
            /\ pc' = "done"
       ELSE /\ pc' = "query"
            /\ UNCHANGED sent
    /\ UNCHANGED <<user_data, update, flights, source_kind, month_result,
                   cheap_flights, calls>>
    /\ UNCHANGED scanVars

\* lines 119-122: the query, the source answering with some outcome r
SearchQueryOf(outcomes) ==
    /\ pc = "query"
    /\ update.command = "search"
    /\ \E r \in outcomes :
        /\ flights' = search_flights_api(r)
        /\ source_kind' = r.kind
    /\ calls' = Append(calls, [origin |-> origin, destination |-> destination,
                               date |-> date_str])
    /\ pc' = "respond"
    /\ UNCHANGED <<user_data, update, user_threshold, month_result,
                   cheap_flights, sent>>
    /\ UNCHANGED scanVars

SearchQuery == SearchQueryOf(SearchOutcomes)

\* lines 123-188: the replies
SearchRespond ==
    /\ pc = "respond"
    /\ update.command = "search"
    /\ cheap_flights' = IF ReachesFilter(source_kind, flights)
                        THEN CheapFlights(flights, user_threshold) ELSE <<>>
    /\ sent' = sent \o SearchReplies(source_kind, flights, user_threshold,
                                     origin, destination, date_str)
    /\ pc' = "done"
    /\ UNCHANGED <<user_data, update, user_threshold, flights, source_kind,
                   month_result, calls>>
    /\ UNCHANGED scanVars

(***************************************************************************)
(* /setthreshold: set_threshold_command_handler.                           *)
(***************************************************************************)
\* NonPositive with < for <=: an amount of 0 is let through
NonPositiveStrict(new_threshold) ==
    Leq(new_threshold, Fin(0)) /\ new_threshold # Fin(0)

\* new_threshold <= 0
NonPositive(new_threshold) == Leq(new_threshold, Fin(0))

\* SetThreshold storing the amount in one place shared by all users
SetThresholdShared ==
    /\ pc = "start"
    /\ update.command = "setthreshold"
    /\ IF ~ArgCountOk(args, 1) THEN
            /\ Reply(<<Token("usage_setthreshold", 59)>>)
            /\ UNCHANGED user_data
       ELSE LET new_threshold == float(args[1]) IN
            IF new_threshold = ValueError THEN
                /\ Reply(<<Token("invalid_amount", 80)>>)
                /\ UNCHANGED user_data
            ELSE IF NonPositive(new_threshold) THEN
                /\ Reply(<<Token("must_be_positive", 42)>>)
                /\ UNCHANGED user_data
            ELSE
                /\ user_data' = [u \in Users |-> new_threshold]
                /\ Reply(<<Token("threshold_updated", 49 + Fmt2fLen(new_threshold))>>)
    /\ pc' = "done"
    /\ UNCHANGED <<update, user_threshold, flights, source_kind, month_result,
                   cheap_flights, calls>>
    /\ UNCHANGED scanVars

\* the whole handler (lines 192-213)
SetThreshold ==
    /\ pc = "start"
    /\ update.command = "setthreshold"
    /\ IF ~ArgCountOk(args, 1) THEN
            /\ Reply(<<Token("usage_setthreshold", 59)>>)
            /\ UNCHANGED user_data
       ELSE LET new_threshold == float(args[1]) IN
            IF new_threshold = ValueError THEN
                /\ Reply(<<Token("invalid_amount", 80)>>)
                /\ UNCHANGED user_data
            ELSE IF NonPositive(new_threshold) THEN
                /\ Reply(<<Token("must_be_positive", 42)>>)
                /\ UNCHANGED user_data
            ELSE
                /\ user_data' = [user_data EXCEPT ![update.user] = new_threshold]
                /\ Reply(<<Token("threshold_updated", 49 + Fmt2fLen(new_threshold))>>)
    /\ pc' = "done"
    /\ UNCHANGED <<update, user_threshold, flights, source_kind, month_result,
                   cheap_flights, calls>>
    /\ UNCHANGED scanVars

(***************************************************************************)
(* /searchmonth: search_month_command_handler.                             *)
(***************************************************************************)
\* re.match(r"^\d{4}-\d{2}$", s), for a text without line breaks
YearMonthPatternOk(s) ==
    /\ Len(s) = 7
    /\ \A i \in {1, 2, 3, 4, 6, 7} : s[i] \in Digits
    /\ s[5] = "-"

\* the queries a month scan of n days puts to the source
MonthCalls(o, d, y, m, n) ==
    [i \in 1..n |-> [origin |-> o, destination |-> d, date |-> DateStr(y, m, i)]]

\* message_parts of /searchmonth (lines 276-285)
MonthParts(cheapest_flights) ==
    [i \in DOMAIN cheapest_flights |-> month_flight_detail(cheapest_flights[i])]

\* the texts /searchmonth replies with after the call (lines 255-303)
MonthReplies(result, o, d, ym) ==
    LET where == Len(o) + Len(d) + Len(ym)
        cheapest_flights == result.value
    IN  IF result.raised THEN <<<<Token("internal_error", 68)>>>>
        ELSE IF cheapest_flights = <<>> THEN <<<<Token("no_flights_found", 30 + where)>>>>
        ELSE MonthChunks(MonthParts(cheapest_flights),
                         <<Token("cheapest_intro",
                                 93 + where + Fmt2fLen(cheapest_flights[1].price))>>,
                         1)

\* lines 220-249: check the arguments, announce the search
MonthStart ==
    /\ pc = "start"
    /\ update.command = "searchmonth"
    /\ IF ~ArgCountOk(args, 3) THEN
            /\ Reply(<<Token("usage_searchmonth", 60)>>)
            /\ pc' = "done"
       ELSE IF ~CodeOk(origin) THEN
            /\ Reply(<<Token("invalid_origin", 73)>>)
            /\ pc' = "done"
       ELSE IF ~CodeOk(destination) THEN
            /\ Reply(<<Token("invalid_destination", 78)>>)
            /\ pc' = "done"
       ELSE IF ~YearMonthPatternOk(year_month_str) THEN
            /\ Reply(<<Token("invalid_year_month", 62)>>)
            /\ pc' = "done"
       ELSE /\ Reply(<<Token("searching",
                             122 + Len(origin) + Len(destination) + Len(year_month_str))>>)
            /\ pc' = "month_call"
    /\ UNCHANGED <<user_data, update, user_threshold, flights, source_kind,
                   month_result, cheap_flights, calls>>
    /\ UNCHANGED scanVars

\* line 254: the call of find_cheapest_flights_in_month, the source
\* answering the days of the month as some world says
MonthCallOf(outcomes) ==
    /\ pc = "month_call"
    /\ update.command = "searchmonth"
    /\ \E ym \in {ParseYearMonth(year_month_str)} :
       IF ym.ok /\ ~IllegalMonth(ym.month) THEN
            LET all_calls == MonthCalls(origin, destination, ym.year, ym.month,
                                        monthrange(ym.year, ym.month))
            IN  \E world \in Worlds(monthrange(ym.year, ym.month), outcomes) :
                    LET result == find_cheapest_flights_in_month(year_month_str, world)
                    IN  /\ month_result' = result
                        /\ calls' = calls \o SubSeq(all_calls, 1, result.queried)
       ELSE /\ month_result' = find_cheapest_flights_in_month(year_month_str, <<>>)
            /\ UNCHANGED calls
    /\ pc' = "month_respond"
    /\ UNCHANGED <<user_data, update, user_threshold, flights, source_kind,
                   cheap_flights, sent>>
    /\ UNCHANGED scanVars

MonthCall == MonthCallOf(HandlerDayOutcomes)

\* lines 255-303: the replies
MonthRespond ==
    /\ pc = "month_respond"
    /\ update.command = "searchmonth"
    /\ sent' = sent \o MonthReplies(month_result, origin, destination, year_month_str)
    /\ pc' = "done"
    /\ UNCHANGED <<user_data, update, user_threshold, flights, source_kind,
                   month_result, cheap_flights, calls>>
    /\ UNCHANGED scanVars

(***************************************************************************)
(* The bot.                                                                *)
(***************************************************************************)
Next ==
    \/ \E u \in Updates : Receive(u)
    \/ SearchStart
    \/ SearchQuery
    \/ SearchRespond
    \/ SetThreshold
    \/ MonthStart
    \/ MonthCall
    \/ MonthRespond
    \/ Return

Spec == Init /\ [][Next]_vars

(***************************************************************************)
(* The bot under fairness: a handler that has begun runs to its end, as    *)
(* the application awaits the handler's coroutine, which runs statement    *)
(* after statement. Nothing forces a next update to arrive.                *)
(***************************************************************************)
\* the answers of the source to a query that differ in how a handler ends:
\* a failure of each kind, no flights, one flight
OneFlightSearchOutcomes ==
    Failures
    \cup {[kind |-> "results", best_flights |-> l, other_flights |-> <<>>] :
            l \in SeqsUpTo(SearchInfos, 1)}

\* the same for one day of a month scan
OneFlightDayOutcomes == HandlerDayOutcomes \ BulkResponses

\* line 120 and line 254 with these answers
SearchQueryOne == SearchQueryOf(OneFlightSearchOutcomes)

MonthCallOne == MonthCallOf(OneFlightDayOutcomes)

NextFair ==
    \/ \E u \in Updates : Receive(u)
    \/ SearchStart
    \/ SearchQueryOne
    \/ SearchRespond
    \/ SetThreshold
    \/ MonthStart
    \/ MonthCallOne
    \/ MonthRespond
    \/ Return

\* every step of a handler is taken once it can be
SpecFair ==
    /\ Init
    /\ [][NextFair]_vars
    /\ WF_vars(SearchStart) /\ WF_vars(SearchQueryOne) /\ WF_vars(SearchRespond)
    /\ WF_vars(SetThreshold)
    /\ WF_vars(MonthStart) /\ WF_vars(MonthCallOne) /\ WF_vars(MonthRespond)

(***************************************************************************)
(* find_cheapest_flights_in_month statement by statement, called directly  *)
(* (as the __main__ block of flight_api_client.py calls it) with any       *)
(* year_month_str.                                                         *)
(***************************************************************************)
DirectYearMonthTexts ==
    YearMonthTexts
    \cup {<<"2", "0", "2", "4", "-", "0", "4">>,
          <<"2", "0", "2", "4", "-", "1", "2">>,
          <<"1", "9", "0", "0", "-", "0", "2">>,
          <<"2", "0", "0", "0", "-", "2">>,
          <<"a", "b", "c", "d">>}

InitMonth ==
    /\ user_data = [u \in Users |-> Unset]
    /\ pc = "idle"
    /\ update = NoUpdate
    /\ user_threshold = Unset
    /\ flights = <<>>
    /\ source_kind = "none"
    /\ month_result = NoResult
    /\ cheap_flights = <<>>
    /\ sent = <<>>
    /\ calls = <<>>
    /\ ScanIdle

\* the call
FindCall(ym) ==
    /\ mpc = "idle"
    /\ ym_arg' = ym
    /\ mpc' = "parse"
    /\ UNCHANGED <<year, month, num_days, day, all_flights_for_month, answers,
                   daily_dicts, ret>>
    /\ UNCHANGED <<botVars, calls>>

\* lines 110-119: parse the argument, compute num_days
FindParse ==
    /\ mpc = "parse"
    /\ LET ym == ParseYearMonth(ym_arg) IN
       IF ~ym.ok THEN
            /\ ret' = [raised |-> FALSE, value |-> <<>>]
            /\ mpc' = "returned"
            /\ UNCHANGED <<year, month, num_days, day>>
       ELSE IF IllegalMonth(ym.month) THEN
            /\ year' = ym.year
            /\ month' = ym.month
            /\ ret' = [raised |-> TRUE, value |-> <<>>]
            /\ mpc' = "returned"
            /\ UNCHANGED <<num_days, day>>
       ELSE /\ year' = ym.year
            /\ month' = ym.month
            /\ num_days' = monthrange(ym.year, ym.month)
            /\ day' = 1
            /\ mpc' = "scan"
            /\ UNCHANGED ret
    /\ UNCHANGED <<ym_arg, all_flights_for_month, answers, daily_dicts>>
    /\ UNCHANGED <<botVars, calls>>

\* lines 121-135: one day of the loop, the source answering with some r
\* (an exception that left search_flights_api would leave the function)
FindDayOf(outcomes) ==
    /\ mpc = "scan"
    /\ day <= num_days
    /\ \E r \in (IF day \in EventDays(num_days) THEN outcomes ELSE {NoFlights}) :
        /\ answers' = Append(answers, r)
        /\ IF ApiRaises(r.kind) THEN
                /\ ret' = [raised |-> TRUE, value |-> <<>>]
                /\ mpc' = "returned"
                /\ UNCHANGED <<all_flights_for_month, day, daily_dicts>>
           ELSE /\ all_flights_for_month' =
                      all_flights_for_month
                        \o DayFlights(search_flights_api(r), DateStr(year, month, day))
                /\ daily_dicts' =
                      Append(daily_dicts,
                             SourceDicts(search_flights_api(r), DateStr(year, month, day)))
                /\ day' = day + 1
                /\ UNCHANGED <<mpc, ret>>
    /\ calls' = Append(calls, [origin |-> JFK, destination |-> LAX,
                               date |-> DateStr(year, month, day)])
    /\ UNCHANGED <<ym_arg, year, month, num_days>>
    /\ UNCHANGED botVars

FindDay == FindDayOf(DayOutcomes)

\* lines 140-155: the loop is over, the cheapest flights are returned
FindFinish ==
    /\ mpc = "scan"
    /\ day > num_days
    /\ ret' = [raised |-> FALSE, value |-> Cheapest(all_flights_for_month)]
    /\ mpc' = "returned"
    /\ UNCHANGED <<ym_arg, year, month, num_days, day, all_flights_for_month, answers,
                   daily_dicts>>
    /\ UNCHANGED <<botVars, calls>>

\* the caller goes on; the call's locals are gone
FindReturn ==
    /\ mpc = "returned"
    /\ mpc' = "idle"
    /\ ym_arg' = <<>>
    /\ year' = 0
    /\ month' = 0
    /\ num_days' = 0
    /\ day' = 0
    /\ all_flights_for_month' = <<>>
    /\ answers' = <<>>
    /\ daily_dicts' = <<>>
    /\ ret' = NoReturn
    /\ calls' = <<>>
    /\ UNCHANGED botVars

NextMonth ==
    \/ \E ym \in DirectYearMonthTexts : FindCall(ym)
    \/ FindParse
    \/ FindDay
    \/ FindFinish
    \/ FindReturn

SpecMonth == InitMonth /\ [][NextMonth]_vars

\* the answers of the source to one day's query that differ in how the day
\* ends: a failure, no flights, one flight
ScanOutcomes ==
    Failures
    \cup {[kind |-> "results", best_flights |-> l, other_flights |-> <<>>] :
            l \in SeqsUpTo(MonthInfos, 1)}

FindDayScan == FindDayOf(ScanOutcomes)

NextScan ==
    \/ \E ym \in DirectYearMonthTexts : FindCall(ym)
    \/ FindParse
    \/ FindDayScan
    \/ FindFinish
    \/ FindReturn

\* the call runs to its end: the interpreter executes the next statement of
\* a call that has begun
SpecMonthFair ==
    /\ InitMonth
    /\ [][NextScan]_vars
    /\ WF_vars(FindParse) /\ WF_vars(FindDayScan) /\ WF_vars(FindFinish)

(***************************************************************************)
(* Properties.                                                             *)
(***************************************************************************)
FailureKinds == {"nokey", "exception", "error"}

\* the handler of command c has returned
Handled(c) == pc = "done" /\ update.command = c

\* some text passed to reply_text starts with the piece t
Replied(t) == \E i \in DOMAIN sent : sent[i] # <<>> /\ sent[i][1].t = t

\* every text passed to reply_text is one piece, of a kind in ts
RepliedOnly(ts) ==
    /\ Len(sent) = 1
    /\ Len(sent[1]) = 1
    /\ sent[1][1].t \in ts

\* p is present, a number, and p <= t
PresentAndAtMost(p, t) ==
    /\ p.k = "fin"
    /\ \/ t.k = "inf"
       \/ t.k = "fin" /\ p.v <= t.v

\* C1: when /search has filtered the flights of the source, a flight of
\* that list is in cheap_flights if and only if its price is present and
\* at most the user's threshold (a price equal to the threshold qualifies,
\* a flight without a price does not), and cheap_flights holds nothing else
C1_ThresholdFilter ==
    (Handled("search") /\ flights # <<>>) =>
        /\ \A i \in DOMAIN flights :
              (\E j \in DOMAIN cheap_flights : cheap_flights[j] = flights[i])
                <=> PresentAndAtMost(flights[i].price, user_threshold)
        /\ \A j \in DOMAIN cheap_flights :
              \E i \in DOMAIN flights : flights[i] = cheap_flights[j]

\* a /search whose flights hold one priced exactly at the threshold, which
\* qualified, and one without a price, which did not
C1_Witness ==
    /\ Handled("search")
    /\ \E i, j \in DOMAIN flights :
          /\ flights[i].price = user_threshold
          /\ flights[j].price = None
          /\ \E n \in DOMAIN cheap_flights : cheap_flights[n] = flights[i]
          /\ \A n \in DOMAIN cheap_flights : cheap_flights[n] # flights[j]

\* C5: when the flight source fails during a /search (no API key, a client
\* error, an error answer), the user gets the 'error fetching data' reply
\* and not the 'no flights found' reply of an empty answer
C5_SourceFailureReported ==
    (Handled("search") /\ source_kind \in FailureKinds) =>
        /\ Replied("error_fetching") \/ Replied("internal_error")
        /\ ~Replied("no_flights_found")

\* the argument list a is one /setthreshold rejects: a wrong number of
\* arguments, or an amount that is no number, is 0 or is negative
Rejected(a) ==
    \/ Len(a) # 1
    \/ float(a[1]) = ValueError
    \/ float(a[1]).k = "ninf"
    \/ float(a[1]).k = "fin" /\ float(a[1]).v <= 0

\* C6: a /setthreshold that is rejected replies with a usage or validation
\* message and leaves every stored threshold as it was
C6_RejectedKeepsThreshold ==
    [][(pc = "start" /\ update.command = "setthreshold" /\ Rejected(args)) =>
          /\ user_data' = user_data
          /\ Len(sent') = 1
          /\ Len(sent'[1]) = 1
          /\ sent'[1][1].t \in {"usage_setthreshold", "invalid_amount",
                                "must_be_positive"}]_vars

\* a user with a stored threshold has had an amount of 0 rejected
C6_Witness ==
    /\ Handled("setthreshold")
    /\ Len(args) = 1
    /\ float(args[1]) = Fin(0)
    /\ user_data[update.user] # Unset
    /\ Replied("must_be_positive")

\* C7: the threshold stored for a user is unset or a strictly positive
\* finite number
C7_StoredThresholdPositiveFinite ==
    \A u \in Users :
        \/ user_data[u] = Unset
        \/ user_data[u].k = "fin" /\ user_data[u].v > 0

\* c is a 3-letter airport code in either case
GoodCode(c) ==
    LET u == upper(c) IN Len(u) = 3 /\ \A i \in DOMAIN u : IsAlphaChar(u[i])

\* the arguments a pass the validation of /search
GoodSearchArgs(a) ==
    Len(a) = 3 /\ GoodCode(a[1]) /\ GoodCode(a[2]) /\ Len(a[3]) = 10

\* the arguments a pass the validation of /searchmonth
GoodMonthArgs(a) ==
    /\ Len(a) = 3
    /\ GoodCode(a[1])
    /\ GoodCode(a[2])
    /\ Len(a[3]) = 7
    /\ a[3][5] = "-"
    /\ \A i \in {1, 2, 3, 4, 6, 7} : a[3][i] \in Digits

\* C8: the flight source is queried only by /search and /searchmonth and
\* only after all three arguments have passed validation; when validation
\* fails, the handler has sent one usage or validation message and
\* returned without a query
C8_ValidationBeforeSource ==
    /\ calls # <<>> =>
          \/ update.command = "search" /\ GoodSearchArgs(args)
          \/ update.command = "searchmonth" /\ GoodMonthArgs(args)
    /\ (update.command = "search" /\ pc # "start" /\ ~GoodSearchArgs(args)) =>
          /\ pc = "done"
          /\ calls = <<>>
          /\ RepliedOnly({"usage_search", "invalid_format"})
    /\ (update.command = "searchmonth" /\ pc # "start" /\ ~GoodMonthArgs(args)) =>
          /\ pc = "done"
          /\ calls = <<>>
          /\ RepliedOnly({"usage_searchmonth", "invalid_origin",
                          "invalid_destination", "invalid_year_month"})

\* a /search with three arguments, one of them malformed, has been
\* answered with the validation message
C8_Witness ==
    /\ Handled("search")
    /\ Len(args) = 3
    /\ ~GoodSearchArgs(args)
    /\ Replied("invalid_format")
    /\ calls = <<>>

\* C9: every text sent while /search or /searchmonth renders its results
\* is at most 4096 characters long
C9_MessagesWithinLimit ==
    (update.command \in {"search", "searchmonth"}) =>
        \A i \in DOMAIN sent : TextLen(sent[i]) <= TelegramLimit

RECURSIVE Flatten(_)
Flatten(texts) == IF texts = <<>> THEN <<>> ELSE Head(texts) \o Flatten(Tail(texts))

\* C10: the detail messages of /search (those after the alert line),
\* concatenated in the order sent, are the records of the qualifying
\* flights in filter order, each followed by its blank-line separator:
\* every record is sent once, whole within one message, none lost and none
\* repeated
C10_RecordsSentOnceInOrder ==
    (Handled("search") /\ cheap_flights # <<>>) =>
        LET body == Flatten(Tail(sent)) IN
        /\ Len(body) = 2 * Len(cheap_flights)
        /\ \A j \in DOMAIN cheap_flights :
              /\ body[2 * j - 1] = flight_detail(cheap_flights[j])
              /\ body[2 * j] = Sep
        /\ \A i \in 2..Len(sent) : Len(sent[i]) % 2 = 0

\* a /search whose two records did not fit one message and went out as
\* two detail messages
C10_Witness ==
    /\ Handled("search")
    /\ Len(cheap_flights) = 2
    /\ Len(sent) = 3
    /\ Len(sent[2]) = 2
    /\ Len(sent[3]) = 2

(***************************************************************************)
(* Properties of find_cheapest_flights_in_month (under SpecMonth).         *)
(***************************************************************************)
\* the call has returned a list after it asked the source for every day
ScanReturned == mpc = "returned" /\ ~ret.raised /\ num_days > 0 /\ day > num_days

\* the positions of all_flights_for_month whose price is a number
Priced == {i \in DOMAIN all_flights_for_month : all_flights_for_month[i].price.k = "fin"}

\* position i holds a lowest price among the flights with a number as price
IsLowest(i) ==
    \A j \in Priced : all_flights_for_month[i].price.v <= all_flights_for_month[j].price.v

\* C2: when a valid month was scanned and some day returned a flight whose
\* price is a number, every flight returned has the lowest such price of
\* all days of the month, and the flights returned are exactly the flights
\* with that price, each of them and in the order of the scan
C2_CheapestAreMinimumWithTies ==
    (ScanReturned /\ Priced # {}) =>
        LET IsTie(f) == \E i \in Priced : IsLowest(i) /\ all_flights_for_month[i] = f
        IN  /\ ret.value # <<>>
            /\ \A r \in DOMAIN ret.value :
                    \E i \in Priced : IsLowest(i) /\ ret.value[r] = all_flights_for_month[i]
            /\ \A i \in Priced :
                    IsLowest(i) => \E r \in DOMAIN ret.value :
                                        ret.value[r] = all_flights_for_month[i]
            /\ ret.value = SelectSeq(all_flights_for_month, IsTie)

\* a scan returned two flights of different days that tie for the lowest
\* price, and left out a dearer flight and a flight whose price is no number
C2_Witness ==
    /\ ScanReturned
    /\ Len(ret.value) = 2
    /\ ret.value[1].date # ret.value[2].date
    /\ \E i \in Priced : ~IsLowest(i)
    /\ \E i \in DOMAIN all_flights_for_month : i \notin Priced

\* the answers of the source, every failure replaced by an answer without
\* flights
WithoutFailures ==
    [d \in DOMAIN answers |->
        IF answers[d].kind \in FailureKinds THEN NoFlights ELSE answers[d]]

\* C3: when the source failed on some days of a scanned month, the call
\* still asks for every day and returns what it returns when the source
\* answers those days with no flights
C3_FailedDaysCountAsEmpty ==
    (mpc = "returned" /\ \E d \in DOMAIN answers : answers[d].kind \in FailureKinds) =>
        /\ ~ret.raised
        /\ Len(answers) = num_days
        /\ LET clean == find_cheapest_flights_in_month(ym_arg, WithoutFailures)
           IN  ~clean.raised /\ ret.value = clean.value

\* the source failed on the first day of the month and the scan returned
\* the cheapest flight of a later day
C3_Witness ==
    /\ ScanReturned
    /\ answers[1].kind \in FailureKinds
    /\ ret.value # <<>>

\* year_month_str denotes no year and month
InvalidYearMonth(s) ==
    LET ym == ParseYearMonth(s) IN ~ym.ok \/ ym.month < 1 \/ ym.month > 12

\* C4: a call whose year_month_str denotes no year and month fails with an
\* error, without a query to the source, and does not return a list
C4_InvalidYearMonthFails ==
    (mpc = "returned" /\ InvalidYearMonth(ym_arg)) => (ret.raised /\ calls = <<>>)

\* the days of month m of year y in the Gregorian calendar
GregorianDays(y, m) ==
    IF m = 2 THEN (IF y % 400 = 0 \/ (y % 4 = 0 /\ y % 100 # 0) THEN 29 ELSE 28)
    ELSE IF m \in {4, 6, 9, 11} THEN 30 ELSE 31

\* the queries put to the source so far are those of the days 1, 2, ... in
\* this order, one for each day
QueriedInOrder ==
    \A i \in DOMAIN calls : calls[i].date = DateStr(year, month, i)

\* C11: for a valid year and month the source is asked once for each day
\* 1..N in ascending order, N the number of days of the month (29 for the
\* February of a leap year); a day that fails or has no flights does not
\* stop the scan, which asks for all N days and then returns
C11_EveryDayQueriedOnce ==
    /\ []((mpc \in {"scan", "returned"} /\ ~InvalidYearMonth(ym_arg)) =>
            /\ QueriedInOrder
            /\ Len(calls) <= GregorianDays(year, month)
            /\ mpc = "scan" => Len(calls) = day - 1
            /\ mpc = "returned" =>
                 ~ret.raised /\ Len(calls) = GregorianDays(year, month))
    /\ (mpc = "scan") ~> (mpc = "returned" /\ Len(calls) = num_days)

\* the 29 days of February 2024 were asked for although the source failed
\* on the first day and had no flights on the second
C11_Witness ==
    /\ mpc = "returned"
    /\ year = 2024 /\ month = 2
    /\ Len(calls) = 29
    /\ answers[1].kind \in FailureKinds
    /\ answers[2] = NoFlights

\* the flights the source returned for the days d..Len(answers), in the
\* order of the days and, within a day, of the source, each with the date
\* of the day whose query returned it
RECURSIVE Encountered(_)
Encountered(d) ==
    IF d > Len(answers) THEN <<>>
    ELSE LET fs == search_flights_api(answers[d])
         IN  [j \in DOMAIN fs |->
                [airline |-> fs[j].airline, flight_number |-> fs[j].flight_number,
                 price |-> fs[j].price, departure_time |-> fs[j].departure_time,
                 date |-> DateStr(year, month, d)]]
             \o Encountered(d + 1)

\* C12: the flights returned by a scan are in the order in which the
\* source returned them (ascending day, within a day the order of the
\* source), and each carries the date of the day whose query returned it:
\* they are the flights met during the scan that have the lowest price,
\* with their dates, in the order they were met
C12_EncounterOrderAndDateTag ==
    ScanReturned =>
        LET met == Encountered(1)
            IsReturned(f) == \E r \in DOMAIN ret.value : ret.value[r].price = f.price
            InResult(f) == f.price.k = "fin" /\ IsReturned(f)
        IN  ret.value = SelectSeq(met, InResult)

\* a scan returned three flights: two different flights of the first day,
\* in the order of the source, then one of the last day
C12_Witness ==
    /\ ScanReturned
    /\ Len(ret.value) = 3
    /\ ret.value[1].date = ret.value[2].date
    /\ ret.value[1] # ret.value[2]
    /\ ret.value[3].date # ret.value[1].date
    /\ answers[1].best_flights[1].flights[1].airline = ret.value[1].airline

\* C13: the qualifying flights of /search are in the order in which the
\* source returned them: cheap_flights is flights with some flights left
\* out, never reordered (nor sorted by price)
C13_FilterKeepsOrder ==
    (Handled("search") /\ flights # <<>>) =>
        \E at \in [DOMAIN cheap_flights -> DOMAIN flights] :
            /\ \A j \in DOMAIN cheap_flights : flights[at[j]] = cheap_flights[j]
            /\ \A j, n \in DOMAIN cheap_flights : j < n => at[j] < at[n]

\* the source returned a dearer flight before a cheaper one, both
\* qualified, and the dearer one still comes first
C13_Witness ==
    /\ Handled("search")
    /\ Len(cheap_flights) = 2
    /\ cheap_flights = flights
    /\ cheap_flights[1].price.k = "fin" /\ cheap_flights[2].price.k = "fin"
    /\ cheap_flights[1].price.v > cheap_flights[2].price.v

\* no entry the source answered with during the scan has a number as price
NoNumericPrice ==
    \A d \in DOMAIN answers :
        \A j \in DOMAIN answers[d].best_flights :
            answers[d].kind \in FailureKinds \/ answers[d].best_flights[j].price.k # "fin"

\* C14: when a valid month was scanned and no day returned a flight whose
\* price is a number (no flights at all, failing days, flights without a
\* price or with a price that is no number), the call returns the empty list
C14_NoPricedFlightsGivesEmpty ==
    (mpc = "returned" /\ ~InvalidYearMonth(ym_arg) /\ NoNumericPrice) =>
        (~ret.raised /\ ret.value = <<>>)

\* a scan whose first day failed and whose last day returned a flight
\* without a price and one whose price is a str returned the empty list
C14_Witness ==
    /\ ScanReturned
    /\ NoNumericPrice
    /\ answers[1].kind \in FailureKinds
    /\ \E j, n \in DOMAIN answers[num_days].best_flights :
          /\ answers[num_days].best_flights[j].price = None
          /\ answers[num_days].best_flights[n].price = StrObj
    /\ all_flights_for_month # <<>>
    /\ ret.value = <<>>

\* a /search is being handled and has read its threshold
Searching == update.command = "search" /\ pc \in {"query", "respond", "done"}

\* the handler of /setthreshold is about to accept the amount
AcceptsAmount ==
    /\ pc = "start" /\ update.command = "setthreshold"
    /\ Len(args) = 1
    /\ float(args[1]) # ValueError
    /\ ~Rejected(args)

\* C15: no threshold is stored at the start; a stored threshold changes
\* only when a /setthreshold of that user is accepted, and then to the
\* amount of that command; and a /search filters with the default 300.00
\* when its user has no stored threshold and else with the stored one, that
\* is, with the amount of the user's last accepted /setthreshold
C15_SearchUsesLatestThreshold ==
    /\ (\A u \in Users : user_data[u] = Unset)
    /\ [][\A u \in Users :
            user_data'[u] # user_data[u] =>
                AcceptsAmount /\ update.user = u /\ user_data'[u] = float(args[1])]_vars
    /\ [][AcceptsAmount => user_data'[update.user] = float(args[1])]_vars
    /\ [](Searching =>
            /\ user_data[update.user] = Unset => user_threshold = Fin(PRICE_THRESHOLD)
            /\ user_data[update.user] # Unset => user_threshold = user_data[update.user])
    /\ []((Handled("search") /\ flights # <<>>) =>
            \A i \in DOMAIN flights :
                (\E j \in DOMAIN cheap_flights : cheap_flights[j] = flights[i])
                    <=> PresentAndAtMost(flights[i].price,
                                         IF user_data[update.user] = Unset
                                         THEN Fin(PRICE_THRESHOLD)
                                         ELSE user_data[update.user]))

\* a user who set 250 searched: a flight at 300.00, which the default lets
\* through, did not qualify, a flight at 199.99 did
C15_Witness ==
    /\ Handled("search")
    /\ user_data[update.user] = Fin(25000)
    /\ user_threshold = Fin(25000)
    /\ \E i \in DOMAIN flights : flights[i].price = Fin(30000)
    /\ Len(cheap_flights) = 1
    /\ cheap_flights[1].price = Fin(19999)

\* C16: the threshold of a user is private: a /setthreshold of one user
\* leaves the threshold stored for every other user as it was, and the
\* threshold a /search filters with is the one stored for its own user (or
\* the default), whatever the other users have stored
C16_ThresholdPrivateToUser ==
    /\ [][\A b \in Users :
            (update.command = "setthreshold" /\ update.user # b) =>
                user_data'[b] = user_data[b]]_vars
    /\ [](\A b \in Users :
            (Searching /\ update.user = b) =>
                user_threshold = (IF user_data[b] = Unset THEN Fin(PRICE_THRESHOLD)
                                  ELSE user_data[b]))

\* after u1 stored 250, u2, who stored nothing, searched with the default:
\* a flight at 300.00 qualified
C16_Witness ==
    /\ Handled("search")
    /\ update.user = "u2"
    /\ user_data["u1"] = Fin(25000)
    /\ user_data["u2"] = Unset
    /\ user_threshold = Fin(PRICE_THRESHOLD)
    /\ \E j \in DOMAIN cheap_flights : cheap_flights[j].price = Fin(30000)

ThreeUpperLetters(c) == Len(c) = 3 /\ \A i \in DOMAIN c : c[i] \in Range(UpperLetters)

\* C18: the flight source is queried only with an origin and a destination
\* of three upper-case letters, which are the codes the user gave, in upper
\* case; a code the user gave with another length or with a character that
\* is no letter is rejected, so that no query follows it
C18_OnlyThreeLetterCodes ==
    calls # <<>> =>
        /\ \A i \in DOMAIN calls :
              ThreeUpperLetters(calls[i].origin) /\ ThreeUpperLetters(calls[i].destination)
        /\ Len(args[1]) = 3
        /\ Len(args[2]) = 3
        /\ \A n \in {1, 2} : \A i \in DOMAIN args[n] :
              args[n][i] \in Range(UpperLetters) \cup Range(LowerLetters)

\* s has the shape YYYY-MM-DD: ten characters, digits but for the hyphens
\* at the positions 5 and 8
DateShape(s) ==
    /\ Len(s) = 10
    /\ s[5] = "-" /\ s[8] = "-"
    /\ \A i \in {1, 2, 3, 4, 6, 7, 9, 10} : s[i] \in Digits

\* C19: /search accepts its date argument only if it has the shape
\* YYYY-MM-DD (whether or not it is a date of the calendar); a date
\* argument of another shape gets the validation message and no query
C19_SearchDateShape ==
    (update.command = "search" /\ pc # "start" /\ Len(args) = 3 /\ ~DateShape(args[3])) =>
        /\ pc = "done"
        /\ calls = <<>>
        /\ RepliedOnly({"invalid_format"})

\* the flights whose records were sent, in the order sent
RECURSIVE RecordsOf(_)
RecordsOf(pieces) ==
    IF pieces = <<>> THEN <<>>
    ELSE (IF Head(pieces).t = "detail" THEN <<Head(pieces).flight>> ELSE <<>>)
         \o RecordsOf(Tail(pieces))

\* C20: when /searchmonth renders at most 30 flights, the record of each is
\* sent and no note is added; when it renders more than 30, the records of
\* the first 30 are sent and no other, and the last message ends with the
\* one note, which reports the number of flights less 30
C20_MonthCutoffAfterThirty ==
    (Handled("searchmonth") /\ ~month_result.raised /\ month_result.value # <<>>) =>
        LET cheapest_flights == month_result.value
            total == Len(cheapest_flights)
            pieces == Flatten(sent)
            notes == {i \in DOMAIN pieces : pieces[i].t = "more"}
        IN  IF total <= 30 THEN
                /\ RecordsOf(pieces) = cheapest_flights
                /\ notes = {}
            ELSE
                /\ RecordsOf(pieces) = SubSeq(cheapest_flights, 1, 30)
                /\ notes = {Len(pieces)}
                /\ pieces[Len(pieces)].count = total - 30

\* /searchmonth rendered 62 flights: 30 records and the note of 32 more
C20_Witness ==
    /\ Handled("searchmonth")
    /\ Len(month_result.value) = 62
    /\ Len(RecordsOf(Flatten(sent))) = 30
    /\ sent[Len(sent)][Len(sent[Len(sent)])] = MoreNote(32)

\* C21: no text passed to reply_text while /search or /searchmonth renders
\* its results is empty
C21_NoEmptyMessage ==
    (update.command \in {"search", "searchmonth"}) =>
        \A i \in DOMAIN sent : sent[i] # <<>> /\ TextLen(sent[i]) > 0

\* C22: every /search, /searchmonth and /setthreshold that is received is
\* handled to its end, whatever its arguments and whatever the flight source
\* does, and by then at least one reply has been sent; no handler ends
\* without a reply
C22_EveryCommandIsAnswered ==
    /\ [](pc = "done" => sent # <<>>)
    /\ [][(pc # "idle" /\ pc' = "idle") => (pc = "done" /\ sent # <<>>)]_vars
    /\ \A c \in {"search", "searchmonth", "setthreshold"} :
          (pc = "start" /\ update.command = c)
              ~> (pc = "done" /\ update.command = c /\ sent # <<>>)

\* a /search whose query failed at the source has been answered
C22_Witness ==
    /\ Handled("search")
    /\ source_kind = "exception"
    /\ calls # <<>>
    /\ Len(sent) = 1
====
